---- MODULE Spec2Model ----
(***************************************************************************)
(* Model of package/supply_format.py (format_ticks, truncate_label) and of *)
(* package/my_style_classes.py (My_styles, pre_make and the renderers).    *)
(*                                                                         *)
(* Numbers handed to format_ticks are Python floats.  They are modelled    *)
(* as sign-magnitude decimals [neg, m, e] standing for (-1)^neg * m * 10^e *)
(* so that a negative zero, one-digit fractions and values up to 1e15 and  *)
(* beyond are all inputs, without leaving TLC's 32-bit integers.           *)
(***************************************************************************)
EXTENDS Integers, Sequences, FiniteSets, TLC

VARIABLES
    ft_value,   \* format_ticks: the value argument of the call
    ft_max,     \* format_ticks: the max argument (None when omitted)
    ft_result,  \* format_ticks: the string returned (Pending before the call)
    preset,     \* the content of styles/my_styles.json
    frames,     \* the caller's datasets: name -> column -> values
    objs,       \* the heap of section dictionaries: object id -> dict
    profiles,   \* the instances: id -> class, type_style and __dict__
    last,       \* the last operation, its arguments, its error and its library calls
    prev,       \* the outcome of the make() just before, when last is a make() of the same instance
    tl_label,   \* truncate_label: the label argument, a string as the sequence of its characters
    tl_length,  \* truncate_label: the length argument [n |-> int] (None when omitted)
    tl_result   \* truncate_label: the string returned (NoString before the call)

ftvars == <<ft_value, ft_max, ft_result>>

stylevars == <<preset, frames, objs, profiles, last, prev>>

tlvars == <<tl_label, tl_length, tl_result>>

vars == <<ft_value, ft_max, ft_result, preset, frames, objs, profiles, last, prev,
          tl_label, tl_length, tl_result>>

(* ------------------------------ bounds -------------------------------- *)

\* Largest decimal exponent of an input number.
MaxExp == 15

\* Number of decimal places an input number may have.
DecDigits == 1

\* Mantissas of the input numbers (each below 10^7).
Mants == {0, 1, 5, 15, 25, 999, 9989}

Exps == (0 - DecDigits)..MaxExp

Nums == [neg : BOOLEAN, m : Mants, e : Exps]

\* Python's None, for the omitted max argument.
None == [none |-> TRUE]

(* --------------------------- float helpers ---------------------------- *)

RECURSIVE Pow10(_)
Pow10(k) == IF k = 0 THEN 1 ELSE 10 * Pow10(k - 1)

RECURSIVE Zeros(_)
Zeros(k) == IF k = 0 THEN "" ELSE "0" \o Zeros(k - 1)

\* m * 10^x >= n, for 1 <= m < 10^7 and 1 <= n <= 999.
ScaledGE(m, x, n) ==
    IF x >= 0
    THEN x >= 3 \/ m * Pow10(x) >= n
    ELSE (0 - x) <= 6 /\ m >= n * Pow10(0 - x)

\* value == 0 (true of both zeros of a float).
IsZero(v) == v.m = 0

\* value / unidade, unidade = 10^u.
Div(v, u) == [neg |-> v.neg, m |-> v.m, e |-> v.e - u]

\* 0.1 <= max / unidade < 999, unidade = 10^u.
RatioTest(mx, u) ==
    /\ ~mx.neg
    /\ mx.m > 0
    /\ ScaledGE(mx.m, mx.e - u + 1, 1)
    /\ ~ScaledGE(mx.m, mx.e - u, 999)

\* formatted_value < 1.
LessThanOne(f) == f.neg \/ f.m = 0 \/ ~ScaledGE(f.m, f.e, 1)

\* f'{x:.0f}': round half to even, print the integer, keep the sign of a
\* negative number even when it rounds to zero.
Fmt0(x) ==
    LET sign == IF x.neg THEN "-" ELSE ""
    IN  IF x.m = 0 THEN sign \o "0"
        ELSE IF x.e >= 0 THEN sign \o ToString(x.m) \o Zeros(x.e)
        ELSE IF (0 - x.e) > 9 THEN sign \o "0"
        ELSE LET P  == Pow10(0 - x.e)
                 q  == x.m \div P
                 r  == x.m % P
                 up == 2 * r > P \/ (2 * r = P /\ q % 2 = 1)
             IN  sign \o ToString(IF up THEN q + 1 ELSE q)

(* ---------------------------- format_ticks ---------------------------- *)

\* scale_dict, in insertion order; unidade is kept as its power of ten.
scale_dict ==
    << [scale |-> "mil", u |-> 3],
       [scale |-> "MM",  u |-> 6],
       [scale |-> "B",   u |-> 9],
       [scale |-> "T",   u |-> 12] >>

\* prev_scales[index] if index > 0 else '', index = position of scale - 1
\* (positions here are 1-based, Python's are 0-based).
prev_scale(i) ==
    LET index == (i - 1) - 1
    IN  IF index > 0 THEN scale_dict[index + 1].scale ELSE ""

\* ticks_loop walking the ladder from the largest scale down.
RECURSIVE ticks_loop_desc(_, _, _)
ticks_loop_desc(value, mx, i) ==
    LET j == Len(scale_dict) + 1 - i
    IN  IF i > Len(scale_dict) THEN Fmt0(value)
        ELSE IF RatioTest(mx, scale_dict[j].u)
             THEN LET formatted_value == Div(value, scale_dict[j].u)
                  IN  IF LessThanOne(formatted_value)
                      THEN Fmt0(value) \o prev_scale(j)
                      ELSE Fmt0(formatted_value) \o scale_dict[j].scale
             ELSE ticks_loop_desc(value, mx, i + 1)

\* The body of the for loop for the i-th scale and the scales after it.
RECURSIVE ticks_loop(_, _, _)
ticks_loop(value, mx, i) ==
    IF i > Len(scale_dict) THEN Fmt0(value)
    ELSE IF RatioTest(mx, scale_dict[i].u)
         THEN LET formatted_value == Div(value, scale_dict[i].u)
              IN  IF LessThanOne(formatted_value)
                  THEN Fmt0(value) \o prev_scale(i)
                  ELSE Fmt0(formatted_value) \o scale_dict[i].scale
         ELSE ticks_loop(value, mx, i + 1)

format_ticks(value, max) ==
    LET mx == IF max = None THEN value ELSE max
    IN  IF IsZero(value) THEN Fmt0(value)
        ELSE ticks_loop(value, mx, 1)

Pending == "<pending>"

(* --------------------------- truncate_label --------------------------- *)

\* No string yet: one element that is not a character.
NoString == << Pending >>

\* The default of the length parameter.
DefaultLength == 32

\* '...'
Dots == << ".", ".", "." >>

\* label[:length]: a negative stop counts from the end of the string, and
\* a stop outside the string is clipped to it.
SliceTo(label, length) ==
    LET stop == IF length < 0 THEN Len(label) + length ELSE length
        n    == IF stop < 0 THEN 0 ELSE IF stop > Len(label) THEN Len(label) ELSE stop
    IN  SubSeq(label, 1, n)

\* truncate_label with the ellipsis also put on a label of exactly length
\* characters.
truncate_label_ge(label, length) ==
    LET len == IF length = None THEN DefaultLength ELSE length.n
    IN  IF Len(label) >= len THEN SliceTo(label, len) \o Dots ELSE label

\* label[:length] + '...' if len(label) > length else label
truncate_label(label, length) ==
    LET len == IF length = None THEN DefaultLength ELSE length.n
    IN  IF Len(label) > len THEN SliceTo(label, len) \o Dots ELSE label

(* ---------------------------- dictionaries ---------------------------- *)

EmptyDict == [k \in {} |-> ""]

\* d[key] = value
DictSet(d, key, value) ==
    [k \in DOMAIN d \cup {key} |-> IF k = key THEN value ELSE d[k]]

\* dict.update replaced by an assignment of the override mapping.
dict_replace(d, o) == o

\* getattr(self, chave).update(valor)
dict_update(d, o) ==
    [k \in DOMAIN d \cup DOMAIN o |-> IF k \in DOMAIN o THEN o[k] ELSE d[k]]

\* f(**d, k1=v1, ...): the keywords of a call put together.
kwargs_join(d, more) ==
    [k \in DOMAIN d \cup DOMAIN more |-> IF k \in DOMAIN more THEN more[k] ELSE d[k]]

\* The keys of a **kwargs, given as the sequence of its items.
Keys(kwargs) == {kwargs[n].k : n \in 1..Len(kwargs)}

(* ----------------------- styles/my_styles.json ------------------------ *)

\* What the file may hold as theme section (estilo) of every chart type:
\* no such section, an empty one, one without and one with a palette.
Themes == {"absent", "empty", "plain", "palette"}

ThemeSection(theme) ==
    IF theme = "empty" THEN EmptyDict
    ELSE IF theme = "plain" THEN [style |-> "whitegrid"]
    ELSE [style |-> "whitegrid", palette |-> "deep"]

WithTheme(sections, theme) ==
    IF theme = "absent" THEN sections
    ELSE DictSet(sections, "estilo", ThemeSection(theme))

PresetFile(theme) ==
    [ barplot |-> WithTheme(
          [tamanho |-> [figsize |-> "(10, 6)"],
           titulo  |-> [label |-> "Barplot", fontsize |-> "14"],
           grafico |-> [orient |-> "h", color |-> "blue"]], theme),
      scatterplot |-> WithTheme(
          [tamanho |-> [figsize |-> "(10, 6)"],
           titulo  |-> [label |-> "Scatterplot", fontsize |-> "14"],
           grafico |-> [alpha |-> "1"],
           eixos   |-> [xlabel |-> "X", ylabel |-> "Y"]], theme),
      histplot |-> WithTheme(
          [tamanho |-> [figsize |-> "(10, 6)"],
           titulo  |-> [label |-> "Histplot", fontsize |-> "14"],
           grafico |-> [bins |-> "10"],
           eixos   |-> [xlabel |-> "X", ylabel |-> "Y"]], theme),
      boxplot |-> WithTheme(
          [tamanho |-> [figsize |-> "(10, 6)"],
           titulo  |-> [label |-> "Boxplot", fontsize |-> "14"],
           grafico |-> [color |-> "blue"]], theme),
      heatmap |-> WithTheme(
          [tamanho |-> [figsize |-> "(10, 6)"],
           titulo  |-> [label |-> "Heatmap", fontsize |-> "14"],
           grafico |-> [annot |-> "True"]], theme),
      group_scatterplot |-> WithTheme(
          [grafico |-> [height |-> "4"],
           map     |-> [alpha |-> "1"],
           eixos   |-> [x_var |-> "X", y_var |-> "Y"],
           titulos |-> [template |-> "{col_name}"],
           tick_params_x |-> [axis |-> "x", labelsize |-> "8"],
           tick_params_y |-> [axis |-> "y", labelsize |-> "8"]], theme) ]

PresetFiles == {PresetFile(theme) : theme \in Themes}

(* ----------------------------- the inputs ----------------------------- *)

\* The names instances are bound to, and the ones the callers of Spec use.
Names == {1, 2}

Insts == {1}

\* The renderer classes and the chart type each passes to My_styles.
Renderers ==
    [ My_barplot |-> "barplot", My_scatterplot |-> "scatterplot",
      My_histplot |-> "histplot", My_boxplot |-> "boxplot",
      My_headmap |-> "heatmap", My_group_scatterplot |-> "group_scatterplot" ]

\* The chart types My_styles is built with directly; the last is not in the file.
DirectTypes == {"boxplot", "pieplot"}

\* The dataset the callers plot.
DemoFrames ==
    [ df1 |-> [cx |-> <<1500, 150000, 0>>, cy |-> <<1, 2, 3, 4, 100>>] ]

\* self.__type_style, as __dict__ names it.
PrivateAttr == "_My_styles__type_style"

KwNone == << >>

KwAlpha == << [k |-> "grafico", v |-> [alpha |-> "0.5"]] >>

\* What fast_instance(data, x, y, title) returns.
KwFast ==
    << [k |-> "grafico", v |-> [data |-> "df1", x |-> "cx", y |-> "cy"]],
       [k |-> "titulo", v |-> [label |-> "Lorem Ipsum"]] >>

KwVertical == << [k |-> "grafico", v |-> [orient |-> "v", data |-> "df1", x |-> "cx", y |-> "cy"]] >>

KwPalette == << [k |-> "estilo", v |-> [palette |-> "dark"]] >>

KwUnknown == << [k |-> "legenda", v |-> [loc |-> "best"]] >>

KwPrivate == << [k |-> "legenda", v |-> [loc |-> "best"]],
                [k |-> PrivateAttr, v |-> [alpha |-> "0.5"]] >>

KwTypeStyle == << [k |-> "type_style", v |-> [alpha |-> "0.5"]] >>

\* One override mapping for each section name of the file.
SectionNames ==
    {"estilo", "tamanho", "titulo", "grafico", "eixos", "map", "titulos",
     "tick_params_x", "tick_params_y"}

KwSection(name) == << [k |-> name, v |-> [label |-> "Lorem Ipsum", alpha |-> "0.5"]] >>

InitKwargs ==
    {KwNone, KwAlpha, KwFast, KwVertical, KwPalette, KwUnknown, KwPrivate, KwTypeStyle}
        \cup {KwSection(name) : name \in SectionNames}

UpdateKwargs == {KwAlpha, KwPalette, KwUnknown, KwPrivate}

(* ------------------------------ My_styles ----------------------------- *)

Ok == "none"

NoProfile == [cls |-> "none"]

IsProfile(i) == profiles[i] # NoProfile

\* The dictionary attribute `name` of instance i is bound to.
Section(i, name) == objs[profiles[i].attrs[name]]

\* read_styles with the file loaded once and its dictionaries handed to
\* every instance: a section already on the heap is bound as it is.
read_styles_shared(i, type_style, heap) ==
    IF type_style \notin DOMAIN preset
    THEN [err |-> "KeyError", attrs |-> EmptyDict, objs |-> heap]
    ELSE LET secs == DOMAIN preset[type_style]
             new  == {<<0, sec>> : sec \in secs} \ DOMAIN heap
         IN  [err   |-> Ok,
              attrs |-> [sec \in secs |-> <<0, sec>>],
              objs  |-> [id \in DOMAIN heap \cup new |->
                            IF id \in new THEN preset[type_style][id[2]]
                            ELSE heap[id]]]

\* read_styles: json.load builds new dictionaries; setattr binds each
\* section of the chart type to its name.
read_styles(i, type_style, heap) ==
    IF type_style \notin DOMAIN preset
    THEN [err |-> "KeyError", attrs |-> EmptyDict, objs |-> heap]
    ELSE LET secs == DOMAIN preset[type_style]
             new  == {<<i, sec>> : sec \in secs}
         IN  [err   |-> Ok,
              attrs |-> [sec \in secs |-> <<i, sec>>],
              objs  |-> [id \in DOMAIN heap \cup new |->
                            IF id \in new THEN preset[type_style][id[2]]
                            ELSE heap[id]]]

\* chave in self.__dict__
in_self_dict(attrs, chave) == chave \in DOMAIN attrs \cup {PrivateAttr}

\* The for loop of update_style_for_dict from the n-th item on.  The
\* private attribute holds a str, which has no update method.
RECURSIVE update_loop(_, _, _, _)
update_loop(attrs, heap, kwargs, n) ==
    IF n > Len(kwargs) THEN [err |-> Ok, objs |-> heap]
    ELSE LET chave == kwargs[n].k
             valor == kwargs[n].v
         IN  IF in_self_dict(attrs, chave)
             THEN IF chave = PrivateAttr
                  THEN [err |-> "AttributeError", objs |-> heap]
                  ELSE update_loop(attrs,
                           [heap EXCEPT ![attrs[chave]] = dict_update(@, valor)],
                           kwargs, n + 1)
             ELSE update_loop(attrs, heap, kwargs, n + 1)

update_style_for_dict(attrs, heap, kwargs) == update_loop(attrs, heap, kwargs, 1)

\* My_styles.__init__(self, type_style, **kwargs): a keyword named like a
\* parameter is a TypeError of the call.
My_styles_init(i, type_style, kwargs, heap) ==
    IF Keys(kwargs) \cap {"self", "type_style"} # {}
    THEN [err |-> "TypeError", attrs |-> EmptyDict, objs |-> heap]
    ELSE LET r == read_styles(i, type_style, heap)
         IN  IF r.err # Ok THEN r
             ELSE LET u == update_style_for_dict(r.attrs, r.objs, kwargs)
                  IN  [err |-> u.err, attrs |-> r.attrs, objs |-> u.objs]

(* ----------------------------- My_boxplot ----------------------------- *)

\* self.grafico["data"][self.grafico[axis]]
Column(attrs, heap, axis) ==
    IF "grafico" \notin DOMAIN attrs THEN [err |-> "AttributeError", col |-> << >>]
    ELSE LET g == heap[attrs["grafico"]]
         IN  IF "data" \notin DOMAIN g \/ axis \notin DOMAIN g
             THEN [err |-> "KeyError", col |-> << >>]
             ELSE IF g[axis] \notin DOMAIN frames[g["data"]]
             THEN [err |-> "KeyError", col |-> << >>]
             ELSE [err |-> Ok, col |-> frames[g["data"]][g[axis]]]

\* Four times Series.quantile(k/4) (linear interpolation, the default).
Quantile4(col, k) ==
    LET s    == SortSeq(col, LAMBDA a, b : a < b)
        pos4 == (Len(s) - 1) * k
        lo   == (pos4 \div 4) + 1
        fr   == pos4 % 4
    IN  IF fr = 0 THEN 4 * s[lo]
        ELSE 4 * s[lo] + fr * (s[lo + 1] - s[lo])

\* sum(outliers) with the bounds themselves counted as outliers.
count_outliers_inclusive(col) ==
    LET Q1 == Quantile4(col, 1)
        Q3 == Quantile4(col, 3)
        IQR == Q3 - Q1
    IN  Cardinality({j \in 1..Len(col) :
            8 * col[j] <= 2 * Q1 - 3 * IQR \/ 8 * col[j] >= 2 * Q3 + 3 * IQR})

\* The arithmetic of quantidade_outliers on the y column; the quartiles
\* are kept times 4 and the bounds times 8.
count_outliers(col) ==
    LET Q1 == Quantile4(col, 1)
        Q3 == Quantile4(col, 3)
        IQR == Q3 - Q1
        lower_bound == 2 * Q1 - 3 * IQR
        upper_bound == 2 * Q3 + 3 * IQR
    IN  Cardinality({j \in 1..Len(col) :
            8 * col[j] < lower_bound \/ 8 * col[j] > upper_bound})

quantidade_outliers(attrs, heap) ==
    LET c == Column(attrs, heap, "y")
    IN  IF c.err # Ok THEN [err |-> c.err, count |-> 0]
        ELSE [err |-> Ok, count |-> count_outliers(c.col)]

OutlierLine(count) == "\nNúmero de Outliers:" \o ToString(count)

\* My_boxplot.__init__: the right-hand side is evaluated first.
My_boxplot_init(i, kwargs, heap) ==
    LET r == My_styles_init(i, "boxplot", kwargs, heap)
    IN  IF r.err # Ok THEN r
        ELSE IF "titulo" \notin DOMAIN r.attrs THEN [r EXCEPT !.err = "AttributeError"]
        ELSE IF "label" \notin DOMAIN r.objs[r.attrs["titulo"]] THEN [r EXCEPT !.err = "KeyError"]
        ELSE LET q == quantidade_outliers(r.attrs, r.objs)
             IN  IF q.err # Ok THEN [r EXCEPT !.err = q.err]
                 ELSE [r EXCEPT !.objs[r.attrs["titulo"]] =
                          DictSet(@, "label", @["label"] \o OutlierLine(q.count))]

\* cls(**kwargs), or My_styles(type_style, **kwargs).
class_init(i, cls, type_style, kwargs, heap) ==
    IF cls = "My_boxplot" THEN My_boxplot_init(i, kwargs, heap)
    ELSE My_styles_init(i, type_style, kwargs, heap)

(* ------------------------ pre_make and make() ------------------------- *)

\* Facets of the grid FacetGrid builds (g.axes.flat).
Facets == 1

Call(fn, args) == [fn |-> fn, args |-> args]

Raise(e) == [calls |-> << >>, err |-> e]

Did(calls) == [calls |-> calls, err |-> Ok]

\* a; b  -  b runs only when a did not raise.
Then(a, b) ==
    IF a.err # Ok THEN a ELSE [calls |-> a.calls \o b.calls, err |-> b.err]

\* fn(**self.<name>)
CallWithSection(fn, attrs, heap, name) ==
    IF name \notin DOMAIN attrs THEN Raise("AttributeError")
    ELSE Did(<< Call(fn, heap[attrs[name]]) >>)

\* The attributes every dict has; hasattr(d, name) looks among these, not
\* among the keys of d.
DictAttributes ==
    {"clear", "copy", "fromkeys", "get", "items", "keys", "pop", "popitem",
     "setdefault", "update", "values"}

hasattr_dict(name) == name \in DictAttributes

\* self.estilo if hasattr(self, 'estilo') and self.estilo else {}
theme_kwargs(attrs, heap) ==
    IF "estilo" \in DOMAIN attrs /\ heap[attrs["estilo"]] # EmptyDict
    THEN heap[attrs["estilo"]]
    ELSE EmptyDict

\* sns.reset_defaults(); sns.set(**...)
reset_and_set(attrs, heap) ==
    Did(<< Call("sns.reset_defaults", EmptyDict),
           Call("sns.set", theme_kwargs(attrs, heap)) >>)

\* sns.set_palette(self.estilo['palette'] if hasattr(self.estilo, 'palette') else {})
set_palette_step(attrs, heap) ==
    IF "estilo" \notin DOMAIN attrs THEN Raise("AttributeError")
    ELSE IF hasattr_dict("palette")
    THEN IF "palette" \in DOMAIN heap[attrs["estilo"]]
         THEN Did(<< Call("sns.set_palette", [palette |-> heap[attrs["estilo"]]["palette"]]) >>)
         ELSE Raise("KeyError")
    ELSE Did(<< Call("sns.set_palette", [palette |-> "{}"]) >>)

\* decorator_filter_kw(my_list): self.grafico without the keys of my_list.
filter_kwargs(g, my_list) == [k \in DOMAIN g \ my_list |-> g[k]]

RECURSIVE MaxOf(_)
MaxOf(col) ==
    IF Len(col) = 1 THEN col[1]
    ELSE LET rest == MaxOf(Tail(col))
         IN  IF col[1] > rest THEN col[1] ELSE rest

IntNum(n) == [neg |-> n < 0, m |-> IF n < 0 THEN 0 - n ELSE n, e |-> 0]

\* The ax.text calls of ax_label_outbar, one per value of the column.
BarLabels(col) ==
    [j \in 1..Len(col) |->
        Call("ax.text", [i |-> ToString(j - 1),
                         s |-> format_ticks(IntNum(col[j]), IntNum(MaxOf(col)))])]

ax_label_outbar(attrs, heap) ==
    IF "grafico" \notin DOMAIN attrs THEN Raise("AttributeError")
    ELSE LET g == heap[attrs["grafico"]]
         IN  IF "orient" \notin DOMAIN g THEN Raise("KeyError")
             ELSE IF g["orient"] = "h"
             THEN LET c == Column(attrs, heap, "x")
                  IN  IF c.err # Ok THEN Raise(c.err)
                      ELSE Did(BarLabels(c.col) \o << Call("ax.set", [xticks |-> "[]"]) >>)
             ELSE IF g["orient"] = "v"
             THEN LET c == Column(attrs, heap, "y")
                  IN  IF c.err # Ok THEN Raise(c.err)
                      ELSE Did(BarLabels(c.col) \o << Call("ax.set", [yticks |-> "[]"]) >>)
             ELSE Did(<< >>)

My_barplot_make(attrs, heap) ==
    Then(CallWithSection("sns.barplot", attrs, heap, "grafico"),
    Then(ax_label_outbar(attrs, heap),
         Did(<< Call("sns.despine", EmptyDict) >>)))

\* The tick formatters of the two axes and what follows them.
axis_formatters(attrs, heap, after) ==
    LET cx == Column(attrs, heap, "x")
        cy == Column(attrs, heap, "y")
    IN  IF cx.err # Ok THEN Raise(cx.err)
        ELSE IF cy.err # Ok THEN Raise(cy.err)
        ELSE Then(Did(<< Call("xaxis.set_major_formatter",
                               [func |-> "format_ticks", max |-> ToString(MaxOf(cx.col))]),
                         Call("yaxis.set_major_formatter",
                               [func |-> "format_ticks", max |-> ToString(MaxOf(cy.col))]) >>),
                  after)

My_scatterplot_make(attrs, heap) ==
    Then(CallWithSection("sns.scatterplot", attrs, heap, "grafico"),
    Then(CallWithSection("ax.set", attrs, heap, "eixos"),
         axis_formatters(attrs, heap,
             Did(<< Call("ax.tick_params", [axis |-> "y", labelsize |-> "10"]) >>))))

My_histplot_make(attrs, heap) ==
    Then(CallWithSection("sns.histplot", attrs, heap, "grafico"),
         CallWithSection("ax.set", attrs, heap, "eixos"))

My_boxplot_make(attrs, heap) == CallWithSection("sns.boxplot", attrs, heap, "grafico")

My_headmap_make(attrs, heap) ==
    IF "grafico" \notin DOMAIN attrs THEN Raise("AttributeError")
    ELSE LET g == heap[attrs["grafico"]]
             rest == filter_kwargs(g, {"data", "x", "y"})
         IN  IF {"data", "x", "y"} \ DOMAIN g # {} THEN Raise("KeyError")
             ELSE IF {"xticklabels", "yticklabels"} \cap DOMAIN rest # {}
             THEN Raise("TypeError")
             ELSE Did(<< Call("sns.heatmap",
                     kwargs_join(rest,
                         [data |-> "round(" \o g["data"] \o ".corr(), 2)",
                          xticklabels |-> g["x"],
                          yticklabels |-> g["y"]])) >>)

\* func(self) of the classes whose make is wrapped by pre_make.
draw(cls, attrs, heap) ==
    IF cls = "My_barplot" THEN My_barplot_make(attrs, heap)
    ELSE IF cls = "My_scatterplot" THEN My_scatterplot_make(attrs, heap)
    ELSE IF cls = "My_histplot" THEN My_histplot_make(attrs, heap)
    ELSE IF cls = "My_boxplot" THEN My_boxplot_make(attrs, heap)
    ELSE My_headmap_make(attrs, heap)

\* closure with plt.show() called before the drawing.
closure_show_first(cls, attrs, heap) ==
    Then(reset_and_set(attrs, heap),
    Then(CallWithSection("plt.figure", attrs, heap, "tamanho"),
    Then(CallWithSection("plt.title", attrs, heap, "titulo"),
    Then(Did(<< Call("plt.show", EmptyDict) >>),
    Then(draw(cls, attrs, heap),
         set_palette_step(attrs, heap))))))

\* pre_make(func).closure
closure(cls, attrs, heap) ==
    Then(reset_and_set(attrs, heap),
    Then(CallWithSection("plt.figure", attrs, heap, "tamanho"),
    Then(CallWithSection("plt.title", attrs, heap, "titulo"),
    Then(draw(cls, attrs, heap),
    Then(set_palette_step(attrs, heap),
         Did(<< Call("plt.show", EmptyDict) >>))))))

\* The body of the loop of My_group_scatterplot.axis for one facet.
facet_axis(attrs, heap) ==
    axis_formatters(attrs, heap,
        Then(CallWithSection("ax.tick_params", attrs, heap, "tick_params_x"),
             CallWithSection("ax.tick_params", attrs, heap, "tick_params_y")))

RECURSIVE group_axis(_, _, _)
group_axis(attrs, heap, n) ==
    IF n = 0 THEN Did(<< >>)
    ELSE Then(facet_axis(attrs, heap), group_axis(attrs, heap, n - 1))

\* g.map(sns.scatterplot, self.grafico["x"], self.grafico["y"], **self.map)
group_map(attrs, heap) ==
    LET g == heap[attrs["grafico"]]
    IN  IF {"x", "y"} \ DOMAIN g # {} THEN Raise("KeyError")
        ELSE IF "map" \notin DOMAIN attrs THEN Raise("AttributeError")
        ELSE Did(<< Call("g.map",
                kwargs_join(heap[attrs["map"]],
                    [func |-> "sns.scatterplot", x |-> g["x"], y |-> g["y"]])) >>)

My_group_scatterplot_make(attrs, heap) ==
    Then(reset_and_set(attrs, heap),
    Then(IF "grafico" \notin DOMAIN attrs THEN Raise("AttributeError")
         ELSE Did(<< Call("sns.FacetGrid",
                         filter_kwargs(heap[attrs["grafico"]], {"x", "y"})) >>),
    Then(group_map(attrs, heap),
    Then(CallWithSection("g.set_axis_labels", attrs, heap, "eixos"),
    Then(CallWithSection("g.set_titles", attrs, heap, "titulos"),
    Then(group_axis(attrs, heap, Facets),
         Did(<< Call("plt.show", EmptyDict) >>)))))))

PreMakeClasses ==
    {"My_barplot", "My_scatterplot", "My_histplot", "My_boxplot", "My_headmap"}

\* make() that also writes the outlier line into the title it draws.
make_retitle(cls, attrs, heap) ==
    LET r == IF cls \in PreMakeClasses THEN closure(cls, attrs, heap)
             ELSE My_group_scatterplot_make(attrs, heap)
    IN  [calls |-> r.calls, err |-> r.err,
         objs  |-> IF "titulo" \in DOMAIN attrs /\ "label" \in DOMAIN heap[attrs["titulo"]]
                   THEN [heap EXCEPT ![attrs["titulo"]] =
                            DictSet(@, "label", @["label"] \o OutlierLine(0))]
                   ELSE heap]

\* instance.make(): the library calls made, the error raised, and the heap
\* afterwards (no statement of make or pre_make assigns to a section).
make(cls, attrs, heap) ==
    LET r == IF cls \in PreMakeClasses THEN closure(cls, attrs, heap)
             ELSE My_group_scatterplot_make(attrs, heap)
    IN  [calls |-> r.calls, err |-> r.err, objs |-> heap]

(* ------------------------------ actions ------------------------------- *)

NoCalls == << >>

NoPrev == [made |-> FALSE]

Op(op, i, cls, type_style, kwargs, err, calls) ==
    [op |-> op, inst |-> i, cls |-> cls, type_style |-> type_style,
     kwargs |-> kwargs, err |-> err, calls |-> calls]

\* An instance is built and bound to the free name i; when the
\* constructor raises, nothing is bound.
Construct(i, cls, type_style, kwargs) ==
    /\ ~IsProfile(i)
    /\ LET r == class_init(i, cls, type_style, kwargs, objs)
       IN  /\ last' = Op("construct", i, cls, type_style, kwargs, r.err, NoCalls)
           /\ IF r.err = Ok
              THEN /\ objs' = r.objs
                   /\ profiles' = [profiles EXCEPT ![i] =
                          [cls |-> cls, type_style |-> type_style, attrs |-> r.attrs]]
              ELSE UNCHANGED <<objs, profiles>>
    /\ prev' = NoPrev
    /\ UNCHANGED <<preset, frames, ft_value, ft_max, ft_result>>
    /\ UNCHANGED tlvars

ConstructRenderer ==
    \E i \in Insts, cls \in DOMAIN Renderers, kwargs \in InitKwargs :
        Construct(i, cls, Renderers[cls], kwargs)

ConstructStyles ==
    \E i \in Insts, type_style \in DirectTypes, kwargs \in InitKwargs :
        Construct(i, "My_styles", type_style, kwargs)

\* instance.update_style_for_dict(**kwargs); what was merged before an
\* error stays merged.
Update(i, kwargs) ==
    /\ IsProfile(i)
    /\ LET u == update_style_for_dict(profiles[i].attrs, objs, kwargs)
       IN  /\ objs' = u.objs
           /\ last' = Op("update", i, profiles[i].cls, profiles[i].type_style,
                         kwargs, u.err, NoCalls)
    /\ prev' = NoPrev
    /\ UNCHANGED <<preset, frames, profiles, ft_value, ft_max, ft_result>>
    /\ UNCHANGED tlvars

UpdateStyle ==
    \E i \in Insts, kwargs \in UpdateKwargs : Update(i, kwargs)

\* instance.make(); prev keeps the outcome of the make() of the same
\* instance that came just before, if one did.
Make ==
    \E i \in Insts :
        /\ IsProfile(i)
        /\ profiles[i].cls # "My_styles"
        /\ LET r == make(profiles[i].cls, profiles[i].attrs, objs)
           IN  /\ objs' = r.objs
               /\ last' = Op("make", i, profiles[i].cls, profiles[i].type_style,
                             KwNone, r.err, r.calls)
        /\ prev' = IF last.op = "make" /\ last.inst = i
                   THEN [made |-> TRUE, calls |-> last.calls, err |-> last.err]
                   ELSE NoPrev
        /\ UNCHANGED <<preset, frames, profiles, ft_value, ft_max, ft_result>>
        /\ UNCHANGED tlvars

StyleInit ==
    /\ preset \in PresetFiles
    /\ frames = DemoFrames
    /\ objs = [id \in {} |-> EmptyDict]
    /\ profiles = [i \in Names |-> NoProfile]
    /\ last = Op("none", 0, "none", "none", KwNone, Ok, NoCalls)
    /\ prev = NoPrev

TicksIdle ==
    /\ ft_value = [neg |-> FALSE, m |-> 0, e |-> 0]
    /\ ft_max = None
    /\ ft_result = Pending

TruncIdle ==
    /\ tl_label = << >>
    /\ tl_length = None
    /\ tl_result = NoString

Init == StyleInit /\ TicksIdle /\ TruncIdle

Next == ConstructRenderer \/ ConstructStyles \/ UpdateStyle \/ Make

Spec == Init /\ [][Next]_vars

(* ------------------ specification of the Box renderer ----------------- *)

\* Longest y column of the datasets handed to the Box renderer.
MaxLen == 5

YValues == {1, 2, 3, 4, 7, 100}

RECURSIVE SeqsUpTo(_)
SeqsUpTo(n) ==
    IF n = 0 THEN {<< >>}
    ELSE LET shorter == SeqsUpTo(n - 1)
         IN  shorter \cup {Append(q, y) : q \in {r \in shorter : Len(r) = n - 1}, y \in YValues}

YColumns == SeqsUpTo(MaxLen) \ {<< >>}

\* With a title override and without one.
BoxKwargs == {KwFast, KwVertical}

InitBox ==
    /\ preset = PresetFile("plain")
    /\ frames \in {[df1 |-> [cx |-> <<0>>, cy |-> col]] : col \in YColumns}
    /\ objs = [id \in {} |-> EmptyDict]
    /\ profiles = [i \in Names |-> NoProfile]
    /\ last = Op("none", 0, "none", "none", KwNone, Ok, NoCalls)
    /\ prev = NoPrev
    /\ TicksIdle
    /\ TruncIdle

ConstructBox ==
    \E kwargs \in BoxKwargs : Construct(1, "My_boxplot", "boxplot", kwargs)

NextBox == ConstructBox

SpecBox == InitBox /\ [][NextBox]_vars

(* ------------------- specification of format_ticks -------------------- *)

InitTicks ==
    /\ ft_value \in Nums
    /\ ft_max \in Nums \cup {None}
    /\ ft_result = Pending
    /\ preset = PresetFile("plain")
    /\ frames = DemoFrames
    /\ objs = [id \in {} |-> EmptyDict]
    /\ profiles = [i \in Names |-> NoProfile]
    /\ last = Op("none", 0, "none", "none", KwNone, Ok, NoCalls)
    /\ prev = NoPrev
    /\ TruncIdle

CallFormatTicks ==
    /\ ft_result = Pending
    /\ ft_result' = format_ticks(ft_value, ft_max)
    /\ UNCHANGED <<ft_value, ft_max>>
    /\ UNCHANGED stylevars
    /\ UNCHANGED tlvars

NextTicks == CallFormatTicks

SpecTicks == InitTicks /\ [][NextTicks]_vars

(* ---------------- specification of several profiles ------------------ *)

\* The instances alive at the same time.
IsoInsts == Names

\* Classes built side by side: two of the same chart type (the Box renderer
\* and the plain profile of its type) and one of another.
IsoClasses ==
    [ My_styles |-> "boxplot", My_boxplot |-> "boxplot", My_barplot |-> "barplot" ]

IsoInitKwargs == {KwNone, KwAlpha, KwFast}

IsoUpdateKwargs == {KwAlpha, KwSection("titulo")}

ConstructIso ==
    \E i \in IsoInsts, cls \in DOMAIN IsoClasses, kwargs \in IsoInitKwargs :
        Construct(i, cls, IsoClasses[cls], kwargs)

UpdateIso ==
    \E i \in IsoInsts, kwargs \in IsoUpdateKwargs : Update(i, kwargs)

InitIso ==
    /\ preset \in {PresetFile("plain"), PresetFile("absent")}
    /\ frames = DemoFrames
    /\ objs = [id \in {} |-> EmptyDict]
    /\ profiles = [i \in Names |-> NoProfile]
    /\ last = Op("none", 0, "none", "none", KwNone, Ok, NoCalls)
    /\ prev = NoPrev
    /\ TicksIdle
    /\ TruncIdle

NextIso == ConstructIso \/ UpdateIso

SpecIso == InitIso /\ [][NextIso]_vars

(* ------------------ specification of truncate_label ------------------- *)

\* Longest label among the short ones; every shorter string over Chars is
\* an input too.
MaxLabelLen == 4

Chars == {"a", "."}

RECURSIVE StringsUpTo(_)
StringsUpTo(n) ==
    IF n = 0 THEN {<< >>}
    ELSE LET shorter == StringsUpTo(n - 1)
         IN  shorter \cup {Append(q, c) : q \in {r \in shorter : Len(r) = n - 1}, c \in Chars}

\* A label of n characters.
LongLabel(n) == [j \in 1..n |-> IF j % 7 = 0 THEN "." ELSE "a"]

\* The short labels, and labels one below, at and above the default length.
Labels ==
    StringsUpTo(MaxLabelLen)
        \cup {LongLabel(DefaultLength - 1), LongLabel(DefaultLength),
              LongLabel(DefaultLength + 1), LongLabel(DefaultLength + 8)}

\* The lengths asked for: around the short labels (negative ones too),
\* around the default, and none.
Lengths ==
    {[n |-> L] : L \in ((0 - 2)..(MaxLabelLen + 1))
                        \cup {DefaultLength - 1, DefaultLength, DefaultLength + 1}}
        \cup {None}

InitTrunc ==
    /\ tl_label \in Labels
    /\ tl_length \in Lengths
    /\ tl_result = NoString
    /\ preset = PresetFile("plain")
    /\ frames = DemoFrames
    /\ objs = [id \in {} |-> EmptyDict]
    /\ profiles = [i \in Names |-> NoProfile]
    /\ last = Op("none", 0, "none", "none", KwNone, Ok, NoCalls)
    /\ prev = NoPrev
    /\ TicksIdle

CallTruncateLabel ==
    /\ tl_result = NoString
    /\ tl_result' = truncate_label(tl_label, tl_length)
    /\ UNCHANGED <<tl_label, tl_length>>
    /\ UNCHANGED stylevars
    /\ UNCHANGED ftvars

NextTrunc == CallTruncateLabel

SpecTrunc == InitTrunc /\ [][NextTrunc]_vars

(* --------------------- format_ticks: the claims ----------------------- *)

\* The ladder as the documentation gives it: thousand < million < billion
\* < trillion, with the suffix each prints and the one before it.
Ladder ==
    { [u |-> 3,  suffix |-> "mil", before |-> ""],
      [u |-> 6,  suffix |-> "MM",  before |-> "mil"],
      [u |-> 9,  suffix |-> "B",   before |-> "MM"],
      [u |-> 12, suffix |-> "T",   before |-> "B"] }

\* The max the call works with: value when max is omitted.
EffMax == IF ft_max = None THEN ft_value ELSE ft_max

\* The scales of the ladder that satisfy 0.1 <= max/unit < 999.
Passing == {s \in Ladder : RatioTest(EffMax, s.u)}

\* The smallest of them.
Selected == CHOOSE s \in Passing : \A t \in Passing : s.u <= t.u

Returned == ft_result # Pending

Num(n, x) == [neg |-> FALSE, m |-> n, e |-> x]

\* C7: for a nonzero value, when some scale satisfies the ratio test and
\* value/unit of the smallest such scale is at least 1, the result is
\* value/unit rounded to 0 decimals followed by that scale's suffix; in
\* particular format_ticks(1500000, max=1500000) = "2MM".
C7_SmallestScaleSuffix ==
    /\ (Returned /\ ~IsZero(ft_value) /\ Passing # {}
            /\ ~LessThanOne(Div(ft_value, Selected.u)))
        => ft_result = Fmt0(Div(ft_value, Selected.u)) \o Selected.suffix
    /\ (Returned /\ ft_value = Num(15, 5) /\ ft_max = Num(15, 5))
        => ft_result = "2MM"

\* A call whose max satisfies the ratio test of two scales (150000 is
\* 150 thousands and 0.15 millions) and that printed the smaller one.
C7_Witness ==
    /\ Returned
    /\ ft_value = Num(15, 4)
    /\ ft_max = Num(15, 4)
    /\ Cardinality(Passing) = 2
    /\ ft_result = "150mil"

\* C8: when value/unit of the selected scale is below 1 (value nonzero),
\* the result is the raw value rounded to 0 decimals followed by the suffix
\* of the scale just before the selected one ("mil" before million, "MM"
\* before billion, "B" before trillion, nothing before thousand).
C8_FallbackPreviousScale ==
    (Returned /\ ~IsZero(ft_value) /\ Passing # {}
        /\ LessThanOne(Div(ft_value, Selected.u)))
    => ft_result = Fmt0(ft_value) \o Selected.before

\* max < 100 (every negative max and both zeros included).
MaxBelow100 == EffMax.neg \/ EffMax.m = 0 \/ ~ScaledGE(EffMax.m, EffMax.e, 100)

\* max >= 999e12.
MaxFrom999e12 == ~EffMax.neg /\ EffMax.m > 0 /\ ScaledGE(EffMax.m, EffMax.e - 12, 999)

\* C9: the result is "0" whenever value is 0, and the value rounded to 0
\* decimals with no suffix whenever no scale satisfies the ratio test
\* (every max below 100, every max from 999e12 on); format_ticks(50, 50)
\* is "50".
C9_ZeroAndNoScale ==
    /\ (Returned /\ IsZero(ft_value)) => ft_result = "0"
    /\ (Returned /\ Passing = {}) => ft_result = Fmt0(ft_value)
    /\ (Returned /\ (MaxBelow100 \/ MaxFrom999e12)) => ft_result = Fmt0(ft_value)
    /\ (Returned /\ ft_value = Num(5, 1) /\ ft_max = Num(5, 1))
        => ft_result = "50"

(* -------------------- truncate_label: the claims ---------------------- *)

\* The length the call works with: 32 when length is omitted.
EffLength == IF tl_length = None THEN DefaultLength ELSE tl_length.n

Truncated == tl_result # NoString

RECURSIVE FirstChars(_, _)
FirstChars(str, n) ==
    IF n = 0 THEN << >> ELSE Append(FirstChars(str, n - 1), str[n])

Constructed == last.op = "construct" /\ last.err = Ok

\* The sections of the file for the chart type of the last operation.
FilePreset == preset[last.type_style]

\* My_boxplot.__init__ rewrites titulo["label"] after the merge (C10); every
\* other key of every section is as My_styles.__init__ left it.
AfterMerge(S, k) == ~(last.cls = "My_boxplot" /\ S = "titulo" /\ k = "label")

SameAsPreset(S) ==
    /\ DOMAIN Section(last.inst, S) = DOMAIN FilePreset[S]
    /\ \A k \in DOMAIN FilePreset[S] :
           AfterMerge(S, k) => Section(last.inst, S)[k] = FilePreset[S][k]

\* C1: after a construction with an override O for a section S of the
\* preset, every key of O has O's value in S, every other key of the preset
\* section keeps its preset value, S has no further key, and the sections
\* without an override are the preset's.
C1_ShallowMerge ==
    Constructed =>
        /\ \A n \in 1..Len(last.kwargs) :
             LET S == last.kwargs[n].k
                 O == last.kwargs[n].v
             IN  S \in DOMAIN FilePreset =>
                   /\ DOMAIN Section(last.inst, S) = DOMAIN FilePreset[S] \cup DOMAIN O
                   /\ \A k \in DOMAIN O :
                          AfterMerge(S, k) => Section(last.inst, S)[k] = O[k]
                   /\ \A k \in DOMAIN FilePreset[S] \ DOMAIN O :
                          AfterMerge(S, k) => Section(last.inst, S)[k] = FilePreset[S][k]
        /\ \A T \in DOMAIN FilePreset \ Keys(last.kwargs) : SameAsPreset(T)

\* The Bar renderer built with grafico={"alpha": "0.5"}: alpha is set, the
\* preset's orient and color are kept.
C1_Witness ==
    /\ Constructed
    /\ last.cls = "My_barplot"
    /\ last.kwargs = KwAlpha
    /\ Section(last.inst, "grafico") = [orient |-> "h", color |-> "blue", alpha |-> "0.5"]

\* C2: a construction whose override keys are all not section names of the
\* chart type's preset raises nothing, binds exactly the preset's sections
\* and leaves each equal to the preset's.  (Left out: My_boxplot, which
\* needs a dataset among its overrides, and the keywords self and
\* type_style, which Python refuses before __init__ runs.)
C2_UnknownKeysIgnored ==
    (/\ last.op = "construct"
     /\ last.cls # "My_boxplot"
     /\ last.type_style \in DOMAIN preset
     /\ Keys(last.kwargs) \cap DOMAIN FilePreset = {}
     /\ Keys(last.kwargs) \cap {"self", "type_style"} = {})
    => /\ last.err = Ok
       /\ IsProfile(last.inst)
       /\ DOMAIN profiles[last.inst].attrs = DOMAIN FilePreset
       /\ \A T \in DOMAIN FilePreset : SameAsPreset(T)

(* --------------------------- make(): the claims ----------------------- *)

Made == last.op = "make"

MadeByPreMake == Made /\ last.cls \in PreMakeClasses

Attrs == profiles[last.inst].attrs

\* The step of the common render sequence a library call belongs to.
Step(fn) ==
    CASE fn = "sns.reset_defaults" -> 1
      [] fn = "sns.set"            -> 2
      [] fn = "plt.figure"         -> 3
      [] fn = "plt.title"          -> 4
      [] fn = "sns.set_palette"    -> 6
      [] fn = "plt.show"           -> 7
      [] OTHER                     -> 5

Steps == [j \in 1..Len(last.calls) |-> Step(last.calls[j].fn)]

\* C3: the calls of a make() wrapped by pre_make come in the order reset,
\* theme, figure (with the size section), title (with the title section),
\* drawing, palette, display: the reset is the first call, no step is
\* skipped or repeated or out of order, a make() that raises nothing ends
\* with the display, and the display is called only after the whole drawing
\* and the palette call, as the last call.
C3_RenderOrder ==
    MadeByPreMake =>
        /\ Len(last.calls) >= 2
        /\ Steps[1] = 1
        /\ \A j \in 1..(Len(last.calls) - 1) :
              /\ Steps[j] <= Steps[j + 1]
              /\ Steps[j + 1] <= Steps[j] + 1
              /\ Steps[j + 1] # 5 => Steps[j] < Steps[j + 1]
        /\ \A j \in 1..Len(last.calls) :
              /\ Steps[j] = 2 => last.calls[j].args = theme_kwargs(Attrs, objs)
              /\ Steps[j] = 3 => last.calls[j].args = Section(last.inst, "tamanho")
              /\ Steps[j] = 4 => last.calls[j].args = Section(last.inst, "titulo")
              /\ Steps[j] = 7 =>
                    /\ j = Len(last.calls)
                    /\ last.err = Ok
                    /\ draw(last.cls, Attrs, objs).err = Ok
                    /\ SubSeq(last.calls, 5, j - 2) = draw(last.cls, Attrs, objs).calls
        /\ last.err = Ok => Steps[Len(last.calls)] = 7

\* A Bar make() that went through all seven steps.
C3_Witness ==
    /\ MadeByPreMake
    /\ last.cls = "My_barplot"
    /\ last.err = Ok
    /\ Len(last.calls) > 7
    /\ last.calls[Len(last.calls)].fn = "plt.show"

\* C4: make() changes no section, and a make() that directly follows a
\* make() of the same instance makes the same library calls with the same
\* arguments and raises the same (nothing, if the first raised nothing).
C4_MakeTwice ==
    [][ last'.op = "make" =>
            /\ objs' = objs
            /\ prev'.made => (prev'.calls = last'.calls /\ prev'.err = last'.err) ]_vars

\* The Box renderer drawn twice in a row without an error.
C4_Witness ==
    /\ Made
    /\ prev.made
    /\ last.cls = "My_boxplot"
    /\ last.err = Ok
    /\ prev.err = Ok

\* C5: a make() wrapped by pre_make on a profile without theme section
\* (size, title and graphic sections there, the drawing itself succeeding)
\* raises nothing, sets an empty global style and reaches the display.
C5_ThemeOptional ==
    (/\ MadeByPreMake
     /\ "estilo" \notin DOMAIN Attrs
     /\ {"tamanho", "titulo", "grafico"} \subseteq DOMAIN Attrs
     /\ draw(last.cls, Attrs, objs).err = Ok)
    => /\ last.err = Ok
       /\ last.calls[2] = Call("sns.set", EmptyDict)
       /\ last.calls[Len(last.calls)].fn = "plt.show"

\* C6: when the theme section has a palette entry, the palette handed to
\* the palette setter after the drawing is that entry's value.
C6_PaletteReapplied ==
    (/\ MadeByPreMake
     /\ "estilo" \in DOMAIN Attrs
     /\ "palette" \in DOMAIN Section(last.inst, "estilo"))
    => \A j \in 1..Len(last.calls) :
           last.calls[j].fn = "sns.set_palette" =>
               last.calls[j].args = [palette |-> Section(last.inst, "estilo")["palette"]]

(* ------------------------ isolation: the claims ----------------------- *)

\* C12: a step (a construction, with the Box title extension in it, or an
\* update_style_for_dict) of one instance changes no section of another
\* instance and nothing of the preset, and an instance built with no
\* overrides has exactly the preset's sections with the preset's values,
\* whatever was built and changed before.
C12_ProfilesIsolated ==
    [][ /\ \A j \in Names :
              (IsProfile(j) /\ last'.inst # j) =>
                  /\ profiles'[j] = profiles[j]
                  /\ \A S \in DOMAIN profiles[j].attrs :
                         objs'[profiles'[j].attrs[S]] = objs[profiles[j].attrs[S]]
        /\ preset' = preset
        /\ (last'.op = "construct" /\ last'.err = Ok /\ last'.kwargs = KwNone) =>
              /\ DOMAIN profiles'[last'.inst].attrs = DOMAIN preset[last'.type_style]
              /\ \A S \in DOMAIN preset[last'.type_style] :
                     objs'[profiles'[last'.inst].attrs[S]] = preset[last'.type_style][S]
      ]_vars

\* A second profile just built with no overrides for the chart type of a
\* first one whose graphic section has been changed: the second has the
\* preset's section.
C12_Witness ==
    /\ Constructed
    /\ last.inst = 2
    /\ last.kwargs = KwNone
    /\ IsProfile(1)
    /\ profiles[1].type_style = last.type_style
    /\ Section(1, "grafico") # FilePreset["grafico"]
    /\ Section(2, "grafico") = FilePreset["grafico"]

(* ----------------------- My_boxplot: the claims ----------------------- *)

\* The y column of the dataset the last construction was given.
YColumn == frames["df1"]["cy"]

\* The title label after the override merge: the override's, else the file's.
MergedLabel ==
    IF \E n \in 1..Len(last.kwargs) :
           last.kwargs[n].k = "titulo" /\ "label" \in DOMAIN last.kwargs[n].v
    THEN (CHOOSE kw \in {last.kwargs[n] : n \in 1..Len(last.kwargs)} : kw.k = "titulo").v["label"]
    ELSE FilePreset["titulo"]["label"]

\* y < Q1 - 1.5*IQR or y > Q3 + 1.5*IQR, all times 8.
IsOutlier(y, col) ==
    LET Q1 == Quantile4(col, 1)
        Q3 == Quantile4(col, 3)
    IN  \/ 8 * y < 2 * Q1 - 3 * (Q3 - Q1)
        \/ 8 * y > 2 * Q3 + 3 * (Q3 - Q1)

RECURSIVE CountFrom(_, _)
CountFrom(col, j) ==
    IF j > Len(col) THEN 0
    ELSE (IF IsOutlier(col[j], col) THEN 1 ELSE 0) + CountFrom(col, j + 1)

\* C10: the title label of a Box renderer just built is the merged label
\* followed once by "\nNúmero de Outliers:" and the number of y values
\* strictly outside [Q1 - 1.5*IQR, Q3 + 1.5*IQR]; that number is 1 for the
\* y values 1, 2, 3, 4, 100.
C10_OutlierTitle ==
    (Constructed /\ last.cls = "My_boxplot") =>
        /\ Section(last.inst, "titulo")["label"]
             = MergedLabel \o "\nNúmero de Outliers:" \o ToString(CountFrom(YColumn, 1))
        /\ YColumn = <<1, 2, 3, 4, 100>> =>
             Section(last.inst, "titulo")["label"] = MergedLabel \o "\nNúmero de Outliers:1"

\* The Box renderer built on the y values 1, 2, 3, 4, 100 with a title.
C10_Witness ==
    /\ Constructed
    /\ last.cls = "My_boxplot"
    /\ YColumn = <<1, 2, 3, 4, 100>>
    /\ Section(last.inst, "titulo")["label"] = "Lorem Ipsum\nNúmero de Outliers:1"

====
